---- MODULE Spec2Model ----
(***************************************************************************)
(* Model of TechNova/app.py: the inference-and-alerting pipeline.          *)
(*                                                                         *)
(*   build_feature_values  (Schema Resolver)                               *)
(*   run_prediction        (Risk Scorer + trigger policy)                  *)
(*   explain_and_generate_advice (Explainer with fallback)                 *)
(*   send_alert_email      (Notification Transport)                        *)
(*   predict_disease, predict_from_cloud, ingest_from_device (routes)      *)
(*                                                                         *)
(* Python strings that the code inspects (feature names, record keys) are  *)
(* sequences of one-character strings, so that lower() and the `in`        *)
(* substring test are computed.  A Python float is an integer here: sensor *)
(* values are whole numbers, probabilities are counted in 1/10000.         *)
(***************************************************************************)
EXTENDS Integers, Sequences, FiniteSets, TLC

VARIABLES
    FEATURE_COLS,        \* bundle["feature_cols"], fixed at load
    LABEL_COLS,          \* bundle["label_cols"], fixed at load
    email_cfg,           \* TRUE iff ALERT_* environment variables are all set
    route,               \* the entry point serving the current request
    pc,                  \* position of the request inside its handler
    payload,             \* the raw record (request JSON or latest snapshot)
    feature_values,      \* result of build_feature_values
    x,                   \* the feature vector handed to the model
    shap_out,            \* what the attribution computation does on x
    explained,           \* number of explain_and_generate_advice calls
    predictions,         \* run_prediction(x)["predictions"]
    model_out,           \* what predict_proba / predict returned for x
    DiseasePredictions,  \* Firestore collection written by ingest_from_device
    composed,            \* alert bodies composed by ingest_from_device
    transport_calls,     \* invocations of send_alert_email
    outbox,              \* messages accepted by the SMTP server
    log,                 \* lines printed by the handlers
    response,            \* the response returned to the caller
    trace                \* the pipeline steps taken by the current request

vars == <<FEATURE_COLS, LABEL_COLS, email_cfg, route, pc, payload,
          feature_values, x, shap_out, explained, predictions, model_out,
          DiseasePredictions, composed, transport_calls, outbox, log,
          response, trace>>

(***************************************************************************)
(* Bounds of the model.                                                    *)
(***************************************************************************)
\* largest number of keys in a raw record of the resolver specification
MaxKeys == 2
\* number of labels of the loaded bundle (a prefix of the trained label list)
MaxLabels == 2

(***************************************************************************)
(* Strings.                                                                *)
(***************************************************************************)
k_temperature == <<"t", "e", "m", "p", "e", "r", "a", "t", "u", "r", "e">>
k_temp == <<"t", "e", "m", "p">>
k_Temperature == <<"T", "e", "m", "p", "e", "r", "a", "t", "u", "r", "e">>
k_humidity == <<"h", "u", "m", "i", "d", "i", "t", "y">>
k_hum == <<"h", "u", "m">>
k_Humidity == <<"H", "u", "m", "i", "d", "i", "t", "y">>
k_co2_ppm == <<"c", "o", "2", "_", "p", "p", "m">>
k_co2 == <<"c", "o", "2">>
k_CO2 == <<"C", "O", "2">>
k_co_ppm == <<"c", "o", "_", "p", "p", "m">>
k_co == <<"c", "o">>
k_CO_ppm == <<"C", "O", "_", "p", "p", "m">>
k_CO == <<"C", "O">>
k_pm25 == <<"p", "m", "2", "5">>
k_pm_25 == <<"p", "m", "_", "2", "5">>
k_PM2_5 == <<"P", "M", "2", "_", "5">>
k_no2_ppm == <<"n", "o", "2", "_", "p", "p", "m">>
k_no2 == <<"n", "o", "2">>
k_NO2 == <<"N", "O", "2">>
k_aqi == <<"a", "q", "i">>
k_AQI == <<"A", "Q", "I">>
k_humid == <<"h", "u", "m", "i", "d">>
k_pm == <<"p", "m">>
k_pm2_5_ugm3 == <<"p", "m", "2", "_", "5", "_", "u", "g", "m", "3">>
k_no2_ppb == <<"n", "o", "2", "_", "p", "p", "b">>
k_temperature_c == <<"t", "e", "m", "p", "e", "r", "a", "t", "u", "r", "e", "_", "c">>
k_humidity_pct == <<"h", "u", "m", "i", "d", "i", "t", "y", "_", "p", "c", "t">>
k_overall_aqi == <<"o", "v", "e", "r", "a", "l", "l", "_", "a", "q", "i">>
k_Temp == <<"T", "e", "m", "p">>
k_wind == <<"w", "i", "n", "d">>

UpperAlpha == <<"A","B","C","D","E","F","G","H","I","J","K","L","M",
                "N","O","P","Q","R","S","T","U","V","W","X","Y","Z">>
LowerAlpha == <<"a","b","c","d","e","f","g","h","i","j","k","l","m",
                "n","o","p","q","r","s","t","u","v","w","x","y","z">>

Range(s) == {s[i] : i \in 1..Len(s)}

LowerTable ==
    [c \in Range(UpperAlpha) |->
        LowerAlpha[CHOOSE i \in 1..Len(UpperAlpha) : UpperAlpha[i] = c]]

LowerChar(c) == IF c \in DOMAIN LowerTable THEN LowerTable[c] ELSE c

\* str.lower()
Lower(s) == [i \in 1..Len(s) |-> LowerChar(s[i])]

\* the substring test `sub in s`
Contains(sub, s) ==
    \E i \in 1..(Len(s) - Len(sub) + 1) : SubSeq(s, i, i + Len(sub) - 1) = sub

(***************************************************************************)
(* JSON values of a raw record, and float(value).                          *)
(***************************************************************************)
Num(n) == [kind |-> "num", n |-> n, s |-> <<>>]
Str(s) == [kind |-> "str", n |-> 0, s |-> s]
Null == [kind |-> "null", n |-> 0, s |-> <<>>]

DigitChars == <<"0","1","2","3","4","5","6","7","8","9">>

IsDigit(c) == \E i \in 1..Len(DigitChars) : DigitChars[i] = c

DigitVal(c) == (CHOOSE i \in 1..Len(DigitChars) : DigitChars[i] = c) - 1

RECURSIVE DigitsValue(_)
DigitsValue(s) ==
    IF s = <<>> THEN 0
    ELSE 10 * DigitsValue(SubSeq(s, 1, Len(s) - 1)) + DigitVal(s[Len(s)])

\* float(value): a number converts, a string of decimal digits parses, any
\* other string raises ValueError and None raises TypeError.
PyFloat(value) ==
    CASE value.kind = "num" -> [ok |-> TRUE, v |-> value.n]
      [] value.kind = "str" ->
            IF value.s # <<>> /\ \A i \in 1..Len(value.s) : IsDigit(value.s[i])
            THEN [ok |-> TRUE, v |-> DigitsValue(value.s)]
            ELSE [ok |-> FALSE, v |-> 0]
      [] OTHER -> [ok |-> FALSE, v |-> 0]

(***************************************************************************)
(* build_feature_values                                                    *)
(***************************************************************************)
\* Aliases with the particulate rule tested before the co2 and co rules
AliasesParticulateFirst(col_lower) ==
    IF Contains(k_temp, col_lower) THEN <<k_temperature, k_temp, k_Temperature>>
    ELSE IF Contains(k_humid, col_lower) THEN <<k_humidity, k_hum, k_Humidity>>
    ELSE IF Contains(k_pm, col_lower) THEN <<k_pm25, k_pm_25, k_PM2_5>>
    ELSE IF Contains(k_co2, col_lower) THEN <<k_co2_ppm, k_co2, k_CO2>>
    ELSE IF Contains(k_co, col_lower) /\ ~Contains(k_co2, col_lower)
         THEN <<k_co_ppm, k_co, k_CO_ppm, k_CO>>
    ELSE IF Contains(k_no2, col_lower) THEN <<k_no2_ppm, k_no2, k_NO2>>
    ELSE IF Contains(k_aqi, col_lower) THEN <<k_aqi, k_AQI>>
    ELSE <<>>

\* the alias group appended to the candidate keys of a feature
Aliases(col_lower) ==
    IF Contains(k_temp, col_lower) THEN <<k_temperature, k_temp, k_Temperature>>
    ELSE IF Contains(k_humid, col_lower) THEN <<k_humidity, k_hum, k_Humidity>>
    ELSE IF Contains(k_co2, col_lower) THEN <<k_co2_ppm, k_co2, k_CO2>>
    ELSE IF Contains(k_co, col_lower) /\ ~Contains(k_co2, col_lower)
         THEN <<k_co_ppm, k_co, k_CO_ppm, k_CO>>
    ELSE IF Contains(k_pm, col_lower) THEN <<k_pm25, k_pm_25, k_PM2_5>>
    ELSE IF Contains(k_no2, col_lower) THEN <<k_no2_ppm, k_no2, k_NO2>>
    ELSE IF Contains(k_aqi, col_lower) THEN <<k_aqi, k_AQI>>
    ELSE <<>>

Candidates(col) ==
    LET col_lower == Lower(col)
    IN <<col, col_lower>> \o Aliases(col_lower)

\* the loop over the candidates without its break: the last key present wins
LastPresentValue(candidates, m) ==
    IF \E i \in 1..Len(candidates) : candidates[i] \in DOMAIN m
    THEN m[candidates[CHOOSE i \in 1..Len(candidates) :
                /\ candidates[i] \in DOMAIN m
                /\ \A j \in (i + 1)..Len(candidates) : candidates[j] \notin DOMAIN m]]
    ELSE Null

\* the loop over the candidates: the value of the first key present, else None
FirstPresentValue(candidates, m) ==
    IF \E i \in 1..Len(candidates) : candidates[i] \in DOMAIN m
    THEN m[candidates[CHOOSE i \in 1..Len(candidates) :
                /\ candidates[i] \in DOMAIN m
                /\ \A j \in 1..(i - 1) : candidates[j] \notin DOMAIN m]]
    ELSE Null

\* `if value is None: value = payload.get(col, 0.0)`
FallbackGet(value, col, m) ==
    IF value = Null
    THEN (IF col \in DOMAIN m THEN m[col] ELSE Num(0))
    ELSE value

\* float(value) without the try block: a failed coercion leaves the function
CoerceNoCatch(value) ==
    IF PyFloat(value).ok
    THEN [raised |-> FALSE, v |-> PyFloat(value).v]
    ELSE [raised |-> TRUE, v |-> 0]

\* try: float(value) / except Exception: 0.0
CoerceOrDefault(value) ==
    IF PyFloat(value).ok
    THEN [raised |-> FALSE, v |-> PyFloat(value).v]
    ELSE [raised |-> FALSE, v |-> 0]

\* one iteration of the loop over FEATURE_COLS, for a mapping m
FeatureValue(col, m) ==
    CoerceOrDefault(FallbackGet(FirstPresentValue(Candidates(col), m), col, m))

\* A payload is [kind |-> "mapping", m |-> function] or a JSON array
\* [kind |-> "array"], on which payload.get raises AttributeError.
build_feature_values(p) ==
    IF p.kind = "mapping"
    THEN LET per_col == [c \in Range(FEATURE_COLS) |-> FeatureValue(c, p.m)]
         IN [raised |-> \E c \in Range(FEATURE_COLS) : per_col[c].raised,
             values |-> [c \in Range(FEATURE_COLS) |-> per_col[c].v]]
    ELSE [raised |-> TRUE, values |-> <<>>]

\* x = np.array([[feature_values[c] for c in FEATURE_COLS]], dtype=float)
FeatureVector(fv) == [i \in 1..Len(FEATURE_COLS) |-> fv[FEATURE_COLS[i]]]


(***************************************************************************)
(* The loaded bundle and the static tables.                                *)
(***************************************************************************)
\* y_cols of the training script, saved as bundle["label_cols"]
TRAIN_LABELS == <<"asthma", "copd", "resp_inf", "cardio", "allergy">>

\* X_cols of the training script (the seven sensor features)
S_train == <<k_co2_ppm, k_co_ppm, k_pm2_5_ugm3, k_no2_ppb, k_temperature_c,
             k_humidity_pct, k_overall_aqi>>
\* a three-feature bundle
S_scenario == <<k_temperature_c, k_co2_ppm, k_pm2_5_ugm3>>
\* a bundle with a mixed-case name and a name of no alias group
S_mixed == <<k_Temp, k_wind>>
\* a bundle with a single feature
S_single == <<k_wind>>

ADVICE_TEMPLATES ==
    [l \in {"asthma", "copd", "resp_inf", "cardio", "allergy"} |->
        CASE l = "asthma" ->
               [title |-> "Asthma exacerbation risk",
                advice |-> <<"Avoid outdoor strenuous exercise.",
                             "Keep windows closed; increase indoor filtration if possible.",
                             "Use prescribed inhaler as advised; consult physician if symptoms worsen.">>]
          [] l = "copd" ->
               [title |-> "COPD exacerbation risk",
                advice |-> <<"Avoid outdoor exposure; use face mask outdoors.",
                             "Ensure medication adherence; seek medical advice for breathing difficulty.">>]
          [] l = "resp_inf" ->
               [title |-> "Respiratory infection risk",
                advice |-> <<"Reduce exposure to polluted air; maintain hydration and hygiene.",
                             "If you have symptoms, consult a doctor.">>]
          [] l = "cardio" ->
               [title |-> "Cardiovascular risk",
                advice |-> <<"Avoid heavy exertion outdoors; those with heart disease should be cautious.",
                             "Consult your cardiologist if you have chest pain or unusual breathlessness.">>]
          [] OTHER ->
               [title |-> "Allergic reaction risk",
                advice |-> <<"Consider antihistamines if you have allergies; keep indoor air clean.",
                             "Avoid outdoor activities during high pollutant episodes.">>]]

\* ADVICE_TEMPLATES.get(label, {}).get("advice", [])
AdviceFor(label) ==
    IF label \in DOMAIN ADVICE_TEMPLATES THEN ADVICE_TEMPLATES[label].advice ELSE <<>>

(***************************************************************************)
(* explain_and_generate_advice                                             *)
(***************************************************************************)
Min(a, b) == IF a < b THEN a ELSE b

\* FEATURE_COLS[:2]
FallbackFeatures == SubSeq(FEATURE_COLS, 1, Min(2, Len(FEATURE_COLS)))

\* sh is what the try block does: it raises, or it yields top_idx
explain_and_generate_advice(sh) ==
    IF sh.kind = "ok"
    THEN [i \in 1..Len(sh.top_idx) |-> FEATURE_COLS[sh.top_idx[i]]]
    ELSE FallbackFeatures

(***************************************************************************)
(* run_prediction                                                          *)
(***************************************************************************)
\* the trigger threshold 0.3, in 1/10000
THRESHOLD == 3000

\* p = float(proba[i][0][1]) guarded by isinstance / i < len / try-except;
\* None is <<>>, a float p is <<p>>
ExtractProbability(proba, i) ==
    IF proba.kind = "list" /\ i <= Len(proba.entries)
    THEN (IF Len(proba.entries[i]) >= 2 THEN <<proba.entries[i][2]>> ELSE <<>>)
    ELSE <<>>

\* the trigger with p >= 0.3 in place of p > 0.3
TriggeredAtThreshold(pred, p) == pred = 1 \/ (p # <<>> /\ p[1] >= THRESHOLD)

\* `preds[i] == 1 or (p is not None and p > 0.3)`
Triggered(pred, p) == pred = 1 \/ (p # <<>> /\ p[1] > THRESHOLD)

PredictionEntry(label, pred, p, sh) ==
    [label |-> label,
     predicted |-> pred,
     probability |-> p,
     reason_features |-> explain_and_generate_advice(sh),
     advice |-> AdviceFor(label)]

\* indices of the labels that pass the trigger, in label order
ActiveIndices(out) ==
    SelectSeq([i \in 1..Len(LABEL_COLS) |-> i],
              LAMBDA i : Triggered(out.preds[i], ExtractProbability(out.proba, i)))

\* the call model.predict_proba(x) stands outside any try block
ProbaCallRaises(out) == out.proba.kind = "raises"

\* out is what the model returns on x; sh what the attribution does on x
run_prediction(out, sh) ==
    IF ProbaCallRaises(out) THEN [raised |-> TRUE, msg |-> "predict_proba", predictions |-> <<>>]
    ELSE IF out.predict_raises THEN [raised |-> TRUE, msg |-> "predict", predictions |-> <<>>]
    ELSE [raised |-> FALSE, msg |-> "",
          predictions |->
            [k \in 1..Len(ActiveIndices(out)) |->
                PredictionEntry(LABEL_COLS[ActiveIndices(out)[k]],
                                out.preds[ActiveIndices(out)[k]],
                                ExtractProbability(out.proba, ActiveIndices(out)[k]),
                                sh)]]

(***************************************************************************)
(* What the model and the attribution library can do on one vector.        *)
(***************************************************************************)
\* positive-class probabilities drawn for a label, in 1/10000
PROBS == {2567, 3000, 3001}

\* one row proba[i][0]: both class columns, or the single column of a label
\* that had one class in training
ProbaRows == {<<10000>>} \cup {<<10000 - p, p>> : p \in PROBS}

ProbaLists == UNION {[1..n -> ProbaRows] : n \in 0..Len(LABEL_COLS)}

NoPreds == [i \in 1..Len(LABEL_COLS) |-> 0]

ModelOutputs ==
    {[proba |-> [kind |-> "raises", entries |-> <<>>], predict_raises |-> FALSE, preds |-> NoPreds],
     [proba |-> [kind |-> "notlist", entries |-> <<>>], predict_raises |-> TRUE, preds |-> NoPreds]}
    \cup {[proba |-> [kind |-> "notlist", entries |-> <<>>], predict_raises |-> FALSE, preds |-> ps] :
            ps \in [1..Len(LABEL_COLS) -> {0, 1}]}
    \cup {[proba |-> [kind |-> "list", entries |-> e], predict_raises |-> FALSE, preds |-> ps] :
            e \in ProbaLists, ps \in [1..Len(LABEL_COLS) -> {0, 1}]}

\* the attribution raises, or ranks two features (one if the schema has one);
\* it is a function of the model and of x, so every call of one request does
\* the same
ShapOutcomes ==
    {[kind |-> "raises", top_idx |-> <<>>]}
    \cup (IF Len(FEATURE_COLS) >= 2
          THEN {[kind |-> "ok", top_idx |-> <<Len(FEATURE_COLS), 1>>],
                [kind |-> "ok", top_idx |-> <<1, 2>>]}
          ELSE {[kind |-> "ok", top_idx |-> <<1>>]})

NoShap == [kind |-> "uncalled", top_idx |-> <<>>]
NoModelOut == [proba |-> [kind |-> "uncalled", entries |-> <<>>], predict_raises |-> FALSE, preds |-> <<>>]


(***************************************************************************)
(* Requests.                                                               *)
(***************************************************************************)
Mapping(m) == [kind |-> "mapping", m |-> m]
EmptyMapping == Mapping(<<>>)
JsonArray == [kind |-> "array", m |-> <<>>]

\* {"temperature": 35, "co2_ppm": 1200, "pm25": 80}
R_scenario ==
    Mapping((k_temperature :> Num(35)) @@ (k_co2_ppm :> Num(1200)) @@ (k_pm25 :> Num(80)))
\* {"temperature": null, "wind": "abc"}
R_unusable ==
    Mapping((k_temperature :> Null) @@ (k_wind :> Str(<<"a", "b", "c">>)))

\* request bodies: not JSON at all, a falsy JSON value, a JSON array, records
RequestBodies ==
    {[kind |-> "malformed", m |-> <<>>], [kind |-> "falsy", m |-> <<>>],
     JsonArray, R_scenario, R_unusable}

\* what the query on sensorData yields: nothing, an empty document, a record
Snapshots == {[kind |-> "none", m |-> <<>>], EmptyMapping, R_scenario}

\* `request.get_json(force=True) or {}`
GetJsonOrEmpty(body) == IF body.kind = "falsy" THEN EmptyMapping ELSE body

Pending == [code |-> 0, body |-> [status |-> "pending"]]

\* an except branch that answers with another discriminator
ErrorResponseFailed(msg) == [code |-> 500, body |-> [status |-> "failed", message |-> msg]]

\* the except branch of every route
ErrorResponse(msg) == [code |-> 500, body |-> [status |-> "error", message |-> msg]]

\* the 404 of predict_from_cloud
NotFoundResponse ==
    [code |-> 404, body |-> [status |-> "error", message |-> "No data found in Firestore."]]

Init ==
    /\ FEATURE_COLS \in {S_scenario, S_single}
    /\ LABEL_COLS = SubSeq(TRAIN_LABELS, 1, MaxLabels)
    /\ email_cfg \in BOOLEAN
    /\ route = "none"
    /\ pc = "idle"
    /\ payload = EmptyMapping
    /\ feature_values = <<>>
    /\ x = <<>>
    /\ shap_out = NoShap
    /\ explained = 0
    /\ predictions = <<>>
    /\ model_out = NoModelOut
    /\ DiseasePredictions = <<>>
    /\ composed = <<>>
    /\ transport_calls = <<>>
    /\ outbox = <<>>
    /\ log = <<>>
    /\ response = Pending
    /\ trace = <<>>

\* the handler leaves through its except branch
Fail(msg) ==
    /\ pc' = "done"
    /\ response' = ErrorResponse(msg)
    /\ log' = Append(log, "error")
    /\ trace' = Append(trace, "respond")

\* predict_disease / ingest_from_device: parse the request body
Receive ==
    /\ pc = "idle"
    /\ \E r \in {"predict_disease", "ingest_from_device"}, body \in RequestBodies :
        /\ route' = r
        /\ IF body.kind = "malformed"
           THEN /\ Fail("bad request")
                /\ UNCHANGED payload
           ELSE /\ payload' = GetJsonOrEmpty(body)
                /\ pc' = "resolve"
                /\ UNCHANGED <<response, log, trace>>
    /\ UNCHANGED <<FEATURE_COLS, LABEL_COLS, email_cfg, feature_values, x, shap_out,
                   explained, predictions, model_out, DiseasePredictions, composed,
                   transport_calls, outbox>>

\* predict_from_cloud: read the latest document of sensorData
FetchLatest ==
    /\ pc = "idle"
    /\ route' = "predict_from_cloud"
    /\ \E query_raises \in BOOLEAN, latest_data \in Snapshots :
        IF query_raises
        THEN /\ Fail("firestore")
             /\ UNCHANGED payload
        ELSE IF latest_data.kind = "none" \/ DOMAIN latest_data.m = {}
        THEN /\ pc' = "done"
             /\ response' = NotFoundResponse
             /\ trace' = Append(trace, "respond")
             /\ UNCHANGED <<payload, log>>
        ELSE /\ payload' = latest_data
             /\ pc' = "resolve"
             /\ UNCHANGED <<response, log, trace>>
    /\ UNCHANGED <<FEATURE_COLS, LABEL_COLS, email_cfg, feature_values, x, shap_out,
                   explained, predictions, model_out, DiseasePredictions, composed,
                   transport_calls, outbox>>

\* feature_values = build_feature_values(payload); x = np.array(...)
Resolve ==
    /\ pc = "resolve"
    /\ LET built == build_feature_values(payload)
       IN IF built.raised
       THEN /\ Fail("build_feature_values")
            /\ UNCHANGED <<feature_values, x>>
       ELSE /\ feature_values' = built.values
            /\ x' = FeatureVector(built.values)
            /\ pc' = "score"
            /\ trace' = Append(trace, "resolve")
            /\ UNCHANGED <<response, log>>
    /\ UNCHANGED <<FEATURE_COLS, LABEL_COLS, email_cfg, route, payload, shap_out,
                   explained, predictions, model_out, DiseasePredictions, composed,
                   transport_calls, outbox>>

\* output = run_prediction(x)
Score ==
    /\ pc = "score"
    /\ \E out \in ModelOutputs, sh \in ShapOutcomes :
        /\ model_out' = out
        /\ IF run_prediction(out, sh).raised
           THEN /\ Fail(run_prediction(out, sh).msg)
                /\ UNCHANGED <<predictions, shap_out, explained>>
           ELSE /\ predictions' = run_prediction(out, sh).predictions
                /\ explained' = Len(ActiveIndices(out))
                /\ shap_out' = IF Len(ActiveIndices(out)) > 0 THEN sh ELSE NoShap
                /\ pc' = IF route = "ingest_from_device" THEN "store" ELSE "respond"
                /\ trace' = Append(trace, "score")
                /\ UNCHANGED <<response, log>>
    /\ UNCHANGED <<FEATURE_COLS, LABEL_COLS, email_cfg, route, payload, feature_values,
                   x, DiseasePredictions, composed, transport_calls, outbox>>


(***************************************************************************)
(* ingest_from_device: store, alert, respond.                              *)
(***************************************************************************)
\* doc_ref.set(doc_data) succeeds
StoreOk ==
    /\ pc = "store"
    /\ DiseasePredictions' =
          Append(DiseasePredictions,
                 [id |-> Len(DiseasePredictions) + 1,
                  features |-> feature_values,
                  predictions |-> predictions])
    /\ pc' = "notify"
    /\ trace' = Append(trace, "store")
    /\ UNCHANGED <<FEATURE_COLS, LABEL_COLS, email_cfg, route, payload, feature_values,
                   x, shap_out, explained, predictions, model_out, composed,
                   transport_calls, outbox, log, response>>

\* doc_ref.set(doc_data) raises: the except branch of the route answers
StoreFails ==
    /\ pc = "store"
    /\ Fail("firestore")
    /\ UNCHANGED <<FEATURE_COLS, LABEL_COLS, email_cfg, route, payload, feature_values,
                   x, shap_out, explained, predictions, model_out, DiseasePredictions,
                   composed, transport_calls, outbox>>

\* f"{prob:.2f}" of a probability that is no rounding tie
Format2(p) ==
    LET q == (p + 50) \div 100
    IN <<DigitChars[(q \div 100) + 1], ".",
         DigitChars[((q \div 10) % 10) + 1], DigitChars[(q % 10) + 1]>>

\* prob_str = f"{prob:.2f}" if isinstance(prob, float) else "N/A"
ProbStr(prob) == IF prob # <<>> THEN Format2(prob[1]) ELSE <<"N", "/", "A">>

\* f"- {label} (probability: {prob_str})"
AlertLine(p) == [label |-> p.label, prob_str |-> ProbStr(p.probability)]

\* the body: one line per prediction, then every feature name and value
AlertBody(preds, fv) ==
    [lines |-> [k \in 1..Len(preds) |-> AlertLine(preds[k])],
     features |-> [i \in 1..Len(FEATURE_COLS) |-> <<FEATURE_COLS[i], fv[FEATURE_COLS[i]]>>]]

\* step 4 without its `if predictions:` guard
ShouldAlertAlways(preds) == TRUE

\* `if predictions:` guards the composition and the call of the transport
ShouldAlert(preds) == preds # <<>>

\* send_alert_email without the try block around the SMTP session
send_alert_email_uncaught(cfg, smtp_ok) ==
    IF ~cfg THEN [raised |-> FALSE, sent |-> FALSE, line |-> "email not sent"]
    ELSE IF smtp_ok THEN [raised |-> FALSE, sent |-> TRUE, line |-> "email sent"]
    ELSE [raised |-> TRUE, sent |-> FALSE, line |-> "email send error"]

\* send_alert_email: without the ALERT_* variables it prints and returns;
\* an error of the SMTP session is caught and printed
send_alert_email(cfg, smtp_ok) ==
    IF ~cfg THEN [raised |-> FALSE, sent |-> FALSE, line |-> "email not sent"]
    ELSE IF smtp_ok THEN [raised |-> FALSE, sent |-> TRUE, line |-> "email sent"]
    ELSE [raised |-> FALSE, sent |-> FALSE, line |-> "email send error"]

\* step 4 of ingest_from_device
Notify ==
    /\ pc = "notify"
    /\ IF ShouldAlert(predictions)
       THEN /\ composed' = Append(composed, AlertBody(predictions, feature_values))
            /\ transport_calls' =
                  Append(transport_calls,
                         [subject |-> "Air Quality Health Risk Alert",
                          body |-> AlertBody(predictions, feature_values)])
            /\ \E smtp_ok \in BOOLEAN :
                  /\ outbox' = IF send_alert_email(email_cfg, smtp_ok).sent
                               THEN Append(outbox, AlertBody(predictions, feature_values))
                               ELSE outbox
                  /\ IF send_alert_email(email_cfg, smtp_ok).raised
                     THEN Fail("smtp")
                     ELSE /\ log' = Append(log, send_alert_email(email_cfg, smtp_ok).line)
                          /\ pc' = "respond"
                          /\ trace' = Append(trace, "notify")
                          /\ UNCHANGED response
       ELSE /\ pc' = "respond"
            /\ trace' = Append(trace, "notify")
            /\ UNCHANGED <<composed, transport_calls, outbox, log, response>>
    /\ UNCHANGED <<FEATURE_COLS, LABEL_COLS, email_cfg, route, payload, feature_values,
                   x, shap_out, explained, predictions, model_out, DiseasePredictions>>

\* the success envelope of each route
SuccessBody ==
    CASE route = "predict_disease" ->
            [status |-> "ok", predictions |-> predictions, features |-> feature_values]
      [] route = "predict_from_cloud" ->
            [status |-> "ok", predictions |-> predictions, latest_data |-> payload.m,
             features |-> feature_values]
      [] OTHER ->
            [status |-> "ok", document_id |-> DiseasePredictions[Len(DiseasePredictions)].id,
             predictions |-> predictions, features |-> feature_values]

Respond ==
    /\ pc = "respond"
    /\ response' = [code |-> 200, body |-> SuccessBody]
    /\ pc' = "done"
    /\ trace' = Append(trace, "respond")
    /\ UNCHANGED <<FEATURE_COLS, LABEL_COLS, email_cfg, route, payload, feature_values,
                   x, shap_out, explained, predictions, model_out, DiseasePredictions,
                   composed, transport_calls, outbox, log>>

Next ==
    \/ Receive
    \/ FetchLatest
    \/ Resolve
    \/ Score
    \/ StoreOk
    \/ StoreFails
    \/ Notify
    \/ Respond

Spec == Init /\ [][Next]_vars

(***************************************************************************)
(* The resolver alone, over every raw record of at most MaxKeys keys.      *)
(***************************************************************************)
ResolverKeys ==
    {k_temperature, k_temp, k_Temp, k_Temperature, k_temperature_c, k_humidity,
     k_co2_ppm, k_co2, k_co_ppm, k_co, k_pm25, k_pm2_5_ugm3, k_no2, k_aqi, k_AQI,
     k_wind}

ResolverValues == {Num(35), Str(<<"8", "0">>), Str(<<"a", "b", "c">>), Null}

ResolverRecords ==
    UNION {[K -> ResolverValues] :
              K \in {K \in SUBSET ResolverKeys : Cardinality(K) <= MaxKeys}}

InitResolve ==
    /\ FEATURE_COLS \in {S_train, S_mixed}
    /\ LABEL_COLS = SubSeq(TRAIN_LABELS, 1, MaxLabels)
    /\ email_cfg = FALSE
    /\ route = "predict_disease"
    /\ pc = "resolve"
    /\ payload \in {Mapping(m) : m \in ResolverRecords}
    /\ feature_values = <<>>
    /\ x = <<>>
    /\ shap_out = NoShap
    /\ explained = 0
    /\ predictions = <<>>
    /\ model_out = NoModelOut
    /\ DiseasePredictions = <<>>
    /\ composed = <<>>
    /\ transport_calls = <<>>
    /\ outbox = <<>>
    /\ log = <<>>
    /\ response = Pending
    /\ trace = <<>>

NextResolve == Resolve

SpecResolve == InitResolve /\ [][NextResolve]_vars


(***************************************************************************)
(* Properties of the resolver.                                             *)
(***************************************************************************)
\* build_feature_values has been applied to the payload of this request
ResolveActed ==
    \/ "resolve" \in Range(trace)
    \/ /\ pc = "done"
       /\ response.body.status = "error"
       /\ response.body.message = "build_feature_values"

\* the candidate keys of col that the record holds, by position
PresentCandidates(col) ==
    LET cands == Candidates(col)
    IN {i \in 1..Len(cands) : cands[i] \in DOMAIN payload.m}

FirstPresentCandidate(col) ==
    LET present == PresentCandidates(col)
    IN Candidates(col)[CHOOSE i \in present : \A j \in present : i <= j]

\* C2: for every raw record that is a mapping, resolution does not raise and
\* yields exactly one number for every entry of the Feature Schema; the
\* vector built from it has the schema's length and order; a feature with no
\* candidate key present, or whose value cannot be coerced, is exactly 0.
C2_ResolveTotal ==
    (ResolveActed /\ payload.kind = "mapping") =>
        /\ "resolve" \in Range(trace)
        /\ DOMAIN feature_values = Range(FEATURE_COLS)
        /\ \A c \in Range(FEATURE_COLS) : feature_values[c] \in Int
        /\ Len(x) = Len(FEATURE_COLS)
        /\ \A i \in 1..Len(FEATURE_COLS) : x[i] = feature_values[FEATURE_COLS[i]]
        /\ \A c \in Range(FEATURE_COLS) :
              (PresentCandidates(c) = {}
                 \/ ~PyFloat(payload.m[FirstPresentCandidate(c)]).ok)
              => feature_values[c] = 0

\* C2 witness: a record with a null and a non-numeric string has been resolved
\* against a schema in which one feature finds no candidate key at all.
C2_Witness ==
    /\ "resolve" \in Range(trace)
    /\ \E k \in DOMAIN payload.m : payload.m[k] = Null
    /\ \E k \in DOMAIN payload.m : payload.m[k] = Str(<<"a", "b", "c">>)
    /\ \E c \in Range(FEATURE_COLS) :
          PresentCandidates(c) # {} /\ ~PyFloat(payload.m[FirstPresentCandidate(c)]).ok
    /\ \E c \in Range(FEATURE_COLS) : PresentCandidates(c) = {}

\* the schema features whose lower-cased name contains "temp"
TempFeatures == {c \in Range(FEATURE_COLS) : Contains(k_temp, Lower(c))}

\* C5 as stated: whenever the record holds "temperature" (with a value that
\* converts), every feature whose lower-cased name contains "temp" resolves
\* to that value.
C5_Original ==
    ("resolve" \in Range(trace) /\ k_temperature \in DOMAIN payload.m
        /\ PyFloat(payload.m[k_temperature]).ok) =>
        \A c \in TempFeatures : feature_values[c] = PyFloat(payload.m[k_temperature]).v

\* C5 amended: the record's "temperature" value is the resolved value of a
\* "temp" feature when the record holds neither the feature's own name nor its
\* lower-cased form as another key; a value that does not convert gives 0.
C5_AliasWhenNameAbsent ==
    ("resolve" \in Range(trace) /\ k_temperature \in DOMAIN payload.m) =>
        \A c \in TempFeatures :
            (/\ (c = k_temperature \/ c \notin DOMAIN payload.m)
             /\ (Lower(c) = k_temperature \/ Lower(c) \notin DOMAIN payload.m))
            => feature_values[c] =
                  IF PyFloat(payload.m[k_temperature]).ok
                  THEN PyFloat(payload.m[k_temperature]).v ELSE 0

\* C5 witness: "temperature" and the later alias "temp" are both present with
\* different values and the feature temperature_c took the value of "temperature".
C5_Witness ==
    /\ "resolve" \in Range(trace)
    /\ k_temperature_c \in Range(FEATURE_COLS)
    /\ DOMAIN payload.m = {k_temperature, k_temp}
    /\ payload.m[k_temperature] = Num(35)
    /\ payload.m[k_temp] = Str(<<"8", "0">>)
    /\ feature_values[k_temperature_c] = 35

\* the alias rules in the order temperature, humidity, co2, co (not co2),
\* particulate, no2, aqi
C9_Rules ==
    <<[pat |-> k_temp, keys |-> <<k_temperature, k_temp, k_Temperature>>],
      [pat |-> k_humid, keys |-> <<k_humidity, k_hum, k_Humidity>>],
      [pat |-> k_co2, keys |-> <<k_co2_ppm, k_co2, k_CO2>>],
      [pat |-> k_co, keys |-> <<k_co_ppm, k_co, k_CO_ppm, k_CO>>],
      [pat |-> k_pm, keys |-> <<k_pm25, k_pm_25, k_PM2_5>>],
      [pat |-> k_no2, keys |-> <<k_no2_ppm, k_no2, k_NO2>>],
      [pat |-> k_aqi, keys |-> <<k_aqi, k_AQI>>]>>

C9_Matching(col) ==
    LET lower == Lower(col)
    IN {i \in 1..Len(C9_Rules) :
          /\ Contains(C9_Rules[i].pat, lower)
          /\ (C9_Rules[i].pat = k_co => ~Contains(k_co2, lower))}

C9_Order(col) ==
    LET matching == C9_Matching(col)
    IN <<col, Lower(col)>> \o
       (IF matching = {} THEN <<>>
        ELSE C9_Rules[CHOOSE i \in matching : \A j \in matching : i <= j].keys)

C9_Expected(col) ==
    LET order == C9_Order(col)
        present == {i \in 1..Len(order) : order[i] \in DOMAIN payload.m}
    IN IF present = {} THEN 0
       ELSE LET v == payload.m[order[CHOOSE i \in present : \A j \in present : i <= j]]
            IN IF PyFloat(v).ok THEN PyFloat(v).v ELSE 0

\* C9: every feature takes the value of the first key present in the order
\* canonical name, lower-cased name, aliases of the first matching rule (a
\* feature of no group: the two names only), whatever later candidates hold.
C9_CandidatePriority ==
    ("resolve" \in Range(trace) /\ payload.kind = "mapping") =>
        \A c \in Range(FEATURE_COLS) : feature_values[c] = C9_Expected(c)

\* C9 witness: co2_ppm resolved from its alias "co2" although a key of the
\* particulate group, whose pattern "pm" its name also contains, is present
\* with another value.
C9_Witness ==
    /\ "resolve" \in Range(trace)
    /\ k_co2_ppm \in Range(FEATURE_COLS)
    /\ DOMAIN payload.m = {k_co2, k_pm25}
    /\ payload.m[k_co2] = Num(35)
    /\ payload.m[k_pm25] = Str(<<"8", "0">>)
    /\ feature_values[k_co2_ppm] = 35
    /\ feature_values[k_pm2_5_ugm3] = 80


(***************************************************************************)
(* Properties of the scorer and of the explainer.                          *)
(***************************************************************************)
\* run_prediction has returned its predictions list for this request
ScoreReturned == "score" \in Range(trace)

\* the positions of the entries of the predictions list that carry label l
EntriesOf(l) == {k \in 1..Len(predictions) : predictions[k].label = l}

\* the model's positive-class probability of label i, <<>> when it gave none
ModelProbability(i) ==
    IF /\ model_out.proba.kind = "list"
       /\ i <= Len(model_out.proba.entries)
       /\ Len(model_out.proba.entries[i]) >= 2
    THEN <<model_out.proba.entries[i][2]>>
    ELSE <<>>

\* C1: the returned list holds an entry for label L iff predicted(L) = 1 or
\* the probability of L is present and strictly above 0.3 (3000/10000); the
\* entry is unique and carries that flag and that probability.
C1_TriggerLaw ==
    ScoreReturned =>
        \A i \in 1..Len(LABEL_COLS) :
            /\ (EntriesOf(LABEL_COLS[i]) # {}) <=>
                  (\/ model_out.preds[i] = 1
                   \/ (ModelProbability(i) # <<>> /\ ModelProbability(i)[1] > 3000))
            /\ Cardinality(EntriesOf(LABEL_COLS[i])) <= 1
            /\ \A k \in EntriesOf(LABEL_COLS[i]) :
                  /\ predictions[k].predicted = model_out.preds[i]
                  /\ predictions[k].probability = ModelProbability(i)

\* C1 witness: the first label has predicted = 0 and probability exactly 0.3
\* and is not listed; the second has predicted = 0 and probability 0.3001 and
\* is the only entry.
C1_Witness ==
    /\ ScoreReturned
    /\ model_out.preds[1] = 0 /\ ModelProbability(1) = <<3000>>
    /\ model_out.preds[2] = 0 /\ ModelProbability(2) = <<3001>>
    /\ Len(predictions) = 1
    /\ predictions[1].label = LABEL_COLS[2]

\* the model was asked for probabilities and gave none for label i
NoProbabilityFor(i) == model_out.proba.kind # "uncalled" /\ ModelProbability(i) = <<>>

\* C4 as stated: whenever the model exposes no probability for some label
\* (a missing entry, an entry without a positive-class column, a result that
\* is no list, or a probability call that fails) and predict itself works,
\* run_prediction returns, and each such label is listed iff its predicted
\* flag is 1, with probability absent.
C4_ProbabilityTolerated ==
    (/\ pc \notin {"idle", "resolve", "score"}
     /\ model_out.proba.kind # "uncalled"
     /\ ~model_out.predict_raises
     /\ \E i \in 1..Len(LABEL_COLS) : NoProbabilityFor(i)) =>
        /\ ScoreReturned
        /\ \A i \in 1..Len(LABEL_COLS) :
              NoProbabilityFor(i) =>
                 /\ (EntriesOf(LABEL_COLS[i]) # {}) <=> (model_out.preds[i] = 1)
                 /\ \A k \in EntriesOf(LABEL_COLS[i]) : predictions[k].probability = <<>>

\* C6 as stated: whenever the attribution raises, every active prediction
\* carries the first 2 entries of the Feature Schema (all of them if fewer)
\* and the finished request answers status "ok" with those predictions.
C6_ExplainerFallback ==
    shap_out.kind = "raises" =>
        /\ \A k \in 1..Len(predictions) :
              predictions[k].reason_features =
                 [i \in 1..(IF Len(FEATURE_COLS) < 2 THEN Len(FEATURE_COLS) ELSE 2) |->
                     FEATURE_COLS[i]]
        /\ pc = "done" =>
              /\ response.body.status = "ok"
              /\ response.body.predictions = predictions

(***************************************************************************)
(* Properties of the routes.                                               *)
(***************************************************************************)
\* the write to DiseasePredictions raised after scoring had returned
StoreFailed ==
    /\ route = "ingest_from_device"
    /\ pc = "done"
    /\ ScoreReturned
    /\ "store" \notin Range(trace)

\* C3 as stated: when the write to the Record Sink fails after scoring, the
\* response still carries the computed predictions.
C3_SinkFailureKeepsPredictions ==
    StoreFailed =>
        /\ "predictions" \in DOMAIN response.body
        /\ response.body.predictions = predictions

\* the alert step of this device-ingestion request has run
AlertStepDone == route = "ingest_from_device" /\ "notify" \in Range(trace)

\* C7: with an empty predictions list no payload is composed and the
\* transport is never invoked; once the alert step has run on a non-empty
\* list, exactly one payload has been composed and handed to the transport
\* once, with one line per prediction in list order.
C7_AlertSuppression ==
    /\ predictions = <<>> => (composed = <<>> /\ transport_calls = <<>>)
    /\ ~AlertStepDone => (composed = <<>> /\ transport_calls = <<>>)
    /\ (AlertStepDone /\ predictions # <<>>) =>
          /\ Len(composed) = 1
          /\ Len(transport_calls) = 1
          /\ transport_calls[1].body = composed[1]
          /\ Len(composed[1].lines) = Len(predictions)
          /\ \A k \in 1..Len(predictions) :
                composed[1].lines[k].label = predictions[k].label

\* C7 witness: the alert step ran on two predictions, one with probability
\* 0.2567 and one with none, and the transport was invoked once.
C7_Witness ==
    /\ AlertStepDone
    /\ Len(predictions) = 2
    /\ Len(transport_calls) = 1
    /\ Len(transport_calls[1].body.lines) = 2
    /\ transport_calls[1].body.lines[1].label = LABEL_COLS[1]
    /\ transport_calls[1].body.lines[1].prob_str = <<"0", ".", "2", "6">>
    /\ transport_calls[1].body.lines[2].prob_str = <<"N", "/", "A">>

IsPrefix(s, t) == Len(s) <= Len(t) /\ SubSeq(t, 1, Len(s)) = s

IngestOrder == <<"resolve", "score", "store", "notify", "respond">>

\* C10: a device-ingestion request takes its steps in the order resolve,
\* score, store, notify, respond (an error answer ends it at any point); the
\* transport is invoked only after this request's document, holding the same
\* predictions, has been stored; and once it has been invoked, whatever the
\* transport did, the answer is status "ok" with the stored document's id.
C10_IngestOrder ==
    route = "ingest_from_device" =>
        /\ \/ IsPrefix(trace, IngestOrder)
           \/ /\ pc = "done"
              /\ response.body.status = "error"
              /\ trace[Len(trace)] = "respond"
              /\ IsPrefix(SubSeq(trace, 1, Len(trace) - 1), IngestOrder)
        /\ transport_calls # <<>> =>
              /\ Len(DiseasePredictions) = 1
              /\ DiseasePredictions[1].predictions = predictions
              /\ IsPrefix(<<"resolve", "score", "store", "notify">>, trace)
        /\ (transport_calls # <<>> /\ pc = "done") =>
              /\ response.code = 200
              /\ response.body.status = "ok"
              /\ response.body.document_id = DiseasePredictions[1].id
              /\ response.body.predictions = predictions

\* C10 witness: the SMTP session failed inside the transport and the request
\* answered "ok" with the stored document.
C10_Witness ==
    /\ route = "ingest_from_device"
    /\ pc = "done"
    /\ trace = IngestOrder
    /\ Len(transport_calls) = 1
    /\ log[Len(log)] = "email send error"
    /\ outbox = <<>>
    /\ response.body.status = "ok"

====
